---- MODULE Spec2Model ----
(***************************************************************************)
(* Model of the resource-management core of the device plugin:             *)
(*   - the supervisor loop  start / startPlugins / stopPlugins  (main)     *)
(*   - the allocation engine  getPreferredAllocation / alignedAlloc /      *)
(*     alloc  (package rm)                                                 *)
(*   - the NVML helpers of package rm: nvmlWaitForEvent,                   *)
(*     nvmlRegisterEventForDevice, walkMigDevices, getMigProfile,          *)
(*     getNumaNode                                                         *)
(* The supervisor is one sequential process; pc is its position in the     *)
(* code.  The allocation engine is a pure function of its inputs and the   *)
(* resource manager's device set; it is checked under SpecAlloc.  The NVML  *)
(* helpers are functions of their arguments and of the answers of the      *)
(* library and the host; they are checked under SpecNvml.                  *)
(***************************************************************************)
EXTENDS Integers, Sequences, FiniteSets, TLC

\* ---------------------------------------------------------------- bounds
\* Starting cycles (passes through the label restart) explored.
MaxCycles == 3
\* Endpoint handles returned by GetPlugins in one cycle.
MaxPlugins == 2
\* Devices served by one endpoint handle.
MaxDevices == 1
\* Largest fsnotify Op bitmask delivered by the watcher.
MaxOp == 3
\* Longest available / required list of an allocation request.
MaxLen == 2
\* Largest size of an allocation request.
MaxSize == 3

\* ------------------------------------------------------ program constants
\* fsnotify.Create, the bit tested by  event.Op&fsnotify.Create .
Create == 1

KubeletSocket == "kubelet.sock"
OtherPath == "other.sock"

SIGHUP == "SIGHUP"
SIGINT == "SIGINT"
SIGTERM == "SIGTERM"
SIGQUIT == "SIGQUIT"
Signals == {SIGHUP, SIGINT, SIGTERM, SIGQUIT}

VARIABLES
    pc,               \* position of the supervisor in start()
    caller,           \* call site of the running stopPlugins: "restart" | "exit"
    restarting,       \* start(): var restarting bool
    restartTimeout,   \* start(): the channel variable: "nil" | "armed" | "drained"
    restartPlugins,   \* start(): second result of the last startPlugins
    plugins,          \* start(): var plugins []*NvidiaDevicePlugin
    newPlugins,       \* startPlugins(): its local plugins
    idx,              \* index of the running range loop
    started,          \* endpoint handles whose server is up: <<cycle, index>>
    nvmlUp,           \* the NVML session is initialised
    lastNvmlCall,     \* the last of nvml.Init / nvml.Shutdown that was called
    failOnInitError,  \* config.Flags.FailOnInitError
    ret,              \* what start() returned: "none" | "nil" | "err"
    cycle,            \* number of handle sets built so far
    arms,             \* number of times the backoff timer was armed
    lastEvent,        \* the event the select received last
    extRestart,       \* some cycle was triggered by SIGHUP or a socket creation
    termReceived,     \* a termination-class signal was received
    devices,          \* rm: the resource manager's device set
    available,        \* request: available ids
    required,         \* request: required ids
    size,             \* request: size
    result,           \* outcome of getPreferredAllocation
    call,             \* hardware query in progress: function, arguments and
                      \* what the NVML library and the host answer to it
    reply             \* what the hardware query returned

supVars == <<pc, caller, restarting, restartTimeout, restartPlugins, plugins,
             newPlugins, idx, started, nvmlUp, lastNvmlCall, failOnInitError,
             ret, cycle, arms, lastEvent, extRestart, termReceived>>
allocVars == <<devices, available, required, size, result>>
nvmlVars == <<call, reply>>
vars == <<supVars, allocVars, nvmlVars>>

\* ============================================================ supervisor

NoEvent == [kind |-> "none", name |-> "", op |-> 0, sig |-> ""]
TimerEvent == [kind |-> "timer", name |-> "", op |-> 0, sig |-> ""]
ErrorEvent == [kind |-> "fserror", name |-> "", op |-> 0, sig |-> ""]
FsEventRec(n, o) == [kind |-> "fs", name |-> n, op |-> o, sig |-> ""]
SignalRec(s) == [kind |-> "signal", name |-> "", op |-> 0, sig |-> s]

\* event.Op&fsnotify.Create == fsnotify.Create
HasCreate(op) == (op \div Create) % 2 = 1

\* One endpoint handle: the cycle that built it, len(p.Devices()), the
\* number of Start and Stop calls made on it, and whether a Stop call on it
\* returned an error.
Handle(c, d) ==
    [cycle |-> c, devs |-> d, starts |-> 0, stops |-> 0, stopErr |-> FALSE]

HandleId(ps, i) == <<ps[i].cycle, i>>

\* The handle lists migStrategy.GetPlugins() may return.
DevLists == UNION {[1..n -> 0..MaxDevices] : n \in 0..MaxPlugins}

SupInit ==
    /\ pc = "restart"
    /\ caller = "none"
    /\ restarting = FALSE
    /\ restartTimeout = "nil"
    /\ restartPlugins = FALSE
    /\ plugins = <<>>
    /\ newPlugins = <<>>
    /\ idx = 1
    /\ started = {}
    /\ nvmlUp = FALSE
    /\ lastNvmlCall = "none"
    /\ failOnInitError \in BOOLEAN
    /\ ret = "none"
    /\ cycle = 0
    /\ arms = 0
    /\ lastEvent = NoEvent
    /\ extRestart = FALSE
    /\ termReceived = FALSE

\* Mutant: the restart path does not stop the plugins of the previous run.
RestartLabelNoStop ==
    /\ pc = "restart"
    /\ pc' = "loadConfig"
    /\ UNCHANGED <<caller, idx, restarting, restartTimeout, restartPlugins,
                   plugins, newPlugins, started, nvmlUp, lastNvmlCall,
                   failOnInitError, ret, cycle, arms, lastEvent, extRestart,
                   termReceived>>

\* restart:  if restarting { stopPlugins(plugins) }  else fall through.
RestartLabel ==
    /\ pc = "restart"
    /\ IF restarting
          THEN /\ pc' = "stopLoop"
               /\ caller' = "restart"
               /\ idx' = 1
          ELSE /\ pc' = "loadConfig"
               /\ UNCHANGED <<caller, idx>>
    /\ UNCHANGED <<restarting, restartTimeout, restartPlugins, plugins,
                   newPlugins, started, nvmlUp, lastNvmlCall, failOnInitError,
                   ret, cycle, arms, lastEvent, extRestart, termReceived>>

\* Mutant: the stop loop passes over a handle without calling Stop on it.
StopPluginSkipped ==
    /\ pc = "stopLoop"
    /\ idx <= Len(plugins)
    /\ idx' = idx + 1
    /\ UNCHANGED <<pc, caller, restarting, restartTimeout, restartPlugins,
                   plugins, newPlugins, started, nvmlUp, lastNvmlCall,
                   failOnInitError, ret, cycle, arms, lastEvent, extRestart,
                   termReceived>>

\* Mutant: the stop loop returns at the first Stop that fails.
StopPluginAbortOnError ==
    /\ pc = "stopLoop"
    /\ idx <= Len(plugins)
    /\ \E ok \in BOOLEAN :
          /\ plugins' = [plugins EXCEPT ![idx].stops = @ + 1,
                                        ![idx].stopErr = ~ok]
          /\ started' = started \ {HandleId(plugins, idx)}
          /\ IF ok
                THEN idx' = idx + 1 /\ UNCHANGED <<pc, ret>>
                ELSE pc' = "done" /\ ret' = "err" /\ idx' = idx
    /\ UNCHANGED <<caller, restarting, restartTimeout, restartPlugins,
                   newPlugins, nvmlUp, lastNvmlCall, failOnInitError, cycle,
                   arms, lastEvent, extRestart, termReceived>>

\* stopPlugins: for _, p := range plugins { p.Stop() }.  The value Stop
\* returns is dropped; the endpoint's server is down after the call.
StopPlugin ==
    /\ pc = "stopLoop"
    /\ idx <= Len(plugins)
    /\ \E ok \in BOOLEAN :
          plugins' = [plugins EXCEPT ![idx].stops = @ + 1,
                                     ![idx].stopErr = ~ok]
    /\ started' = started \ {HandleId(plugins, idx)}
    /\ idx' = idx + 1
    /\ UNCHANGED <<pc, caller, restarting, restartTimeout, restartPlugins,
                   newPlugins, nvmlUp, lastNvmlCall, failOnInitError, ret,
                   cycle, arms, lastEvent, extRestart, termReceived>>

\* Mutant: stopPlugins returns nil without calling nvml.Shutdown().
StopLoopDoneNoShutdown ==
    /\ pc = "stopLoop"
    /\ idx > Len(plugins)
    /\ IF caller = "restart"
          THEN pc' = "loadConfig" /\ ret' = ret
          ELSE pc' = "done" /\ ret' = "nil"
    /\ UNCHANGED <<caller, restarting, restartTimeout, restartPlugins, plugins,
                   newPlugins, idx, started, nvmlUp, lastNvmlCall,
                   failOnInitError, cycle, arms, lastEvent, extRestart,
                   termReceived>>

\* stopPlugins: the range loop is over.
StopLoopDone ==
    /\ pc = "stopLoop"
    /\ idx > Len(plugins)
    /\ pc' = "nvmlShutdown"
    /\ UNCHANGED <<caller, restarting, restartTimeout, restartPlugins,
                   plugins, newPlugins, idx, started, nvmlUp, lastNvmlCall,
                   failOnInitError, ret, cycle, arms, lastEvent, extRestart,
                   termReceived>>

\* stopPlugins: nvml.Shutdown(), and what the caller does with its result.
NvmlShutdown ==
    /\ pc = "nvmlShutdown"
    /\ lastNvmlCall' = "Shutdown"
    /\ \E ok \in BOOLEAN :
          IF ok
             THEN /\ nvmlUp' = FALSE
                  /\ IF caller = "restart"
                        THEN pc' = "loadConfig" /\ ret' = ret
                        ELSE pc' = "done" /\ ret' = "nil"
             ELSE /\ nvmlUp' = nvmlUp
                  /\ pc' = "done"
                  /\ ret' = "err"
    /\ UNCHANGED <<caller, restarting, restartTimeout, restartPlugins, plugins,
                   newPlugins, idx, started, failOnInitError, cycle, arms,
                   lastEvent, extRestart, termReceived>>

\* start(): plugins, restartPlugins, err := startPlugins(...) returned an
\* error: return fmt.Errorf("error starting plugins: ...").
ReturnStartError ==
    /\ plugins' = <<>>
    /\ restartPlugins' = FALSE
    /\ newPlugins' = <<>>
    /\ ret' = "err"
    /\ pc' = "done"

\* startPlugins: loadConfig.
LoadConfig ==
    /\ pc = "loadConfig"
    /\ \E ok \in BOOLEAN :
          IF ok
             THEN /\ pc' = "nvmlInit"
                  /\ UNCHANGED <<plugins, restartPlugins, newPlugins, ret>>
             ELSE ReturnStartError
    /\ UNCHANGED <<caller, restarting, restartTimeout, idx, started, nvmlUp,
                   lastNvmlCall, failOnInitError, cycle, arms, lastEvent,
                   extRestart, termReceived>>

\* Mutant: a failed nvml.Init() is logged and startPlugins goes on.
NvmlInitFailureIgnored ==
    /\ pc = "nvmlInit"
    /\ lastNvmlCall' = "Init"
    /\ \E ok \in BOOLEAN :
          /\ nvmlUp' = (IF ok THEN TRUE ELSE nvmlUp)
          /\ pc' = "getPlugins"
          /\ UNCHANGED <<plugins, restartPlugins, newPlugins, ret>>
    /\ UNCHANGED <<caller, restarting, restartTimeout, idx, started,
                   failOnInitError, cycle, arms, lastEvent, extRestart,
                   termReceived>>

\* startPlugins: nvml.Init(); on failure return an error (fail-fast) or
\* block in  select {} .
NvmlInit ==
    /\ pc = "nvmlInit"
    /\ lastNvmlCall' = "Init"
    /\ \E ok \in BOOLEAN :
          IF ok
             THEN /\ nvmlUp' = TRUE
                  /\ pc' = "getPlugins"
                  /\ UNCHANGED <<plugins, restartPlugins, newPlugins, ret>>
             ELSE /\ nvmlUp' = nvmlUp
                  /\ IF failOnInitError
                        THEN ReturnStartError
                        ELSE /\ pc' = "blocked"
                             /\ UNCHANGED <<plugins, restartPlugins,
                                            newPlugins, ret>>
    /\ UNCHANGED <<caller, restarting, restartTimeout, idx, started,
                   failOnInitError, cycle, arms, lastEvent, extRestart,
                   termReceived>>

\* startPlugins: AddDefaultResourcesToConfig, MarshalIndent, NewMigStrategy
\* and GetPlugins: an error returns, otherwise a fresh list of handles.
GetPlugins ==
    /\ pc = "getPlugins"
    /\ \/ /\ ReturnStartError
          /\ UNCHANGED <<idx, cycle>>
       \/ \E ds \in DevLists :
             /\ cycle' = cycle + 1
             /\ newPlugins' = [i \in DOMAIN ds |-> Handle(cycle + 1, ds[i])]
             /\ idx' = 1
             /\ pc' = "startLoop"
             /\ UNCHANGED <<plugins, restartPlugins, ret>>
    /\ UNCHANGED <<caller, restarting, restartTimeout, started, nvmlUp,
                   lastNvmlCall, failOnInitError, arms, lastEvent, extRestart,
                   termReceived>>

\* startPlugins: if len(p.Devices()) == 0 { continue }
SkipPlugin ==
    /\ pc = "startLoop"
    /\ idx <= Len(newPlugins)
    /\ newPlugins[idx].devs = 0
    /\ idx' = idx + 1
    /\ UNCHANGED <<pc, caller, restarting, restartTimeout, restartPlugins,
                   plugins, newPlugins, started, nvmlUp, lastNvmlCall,
                   failOnInitError, ret, cycle, arms, lastEvent, extRestart,
                   termReceived>>

\* Mutant: a Start failure is returned as an error and ends start().
CallStartFailureEndsLoop ==
    /\ \E ok \in BOOLEAN :
          IF ok
             THEN /\ newPlugins' = [newPlugins EXCEPT ![idx].starts = @ + 1]
                  /\ started' = started \cup {HandleId(newPlugins, idx)}
                  /\ idx' = idx + 1
                  /\ UNCHANGED <<pc, plugins, restartPlugins, ret>>
             ELSE /\ plugins' = <<>>
                  /\ newPlugins' = <<>>
                  /\ restartPlugins' = FALSE
                  /\ ret' = "err"
                  /\ pc' = "done"
                  /\ UNCHANGED <<started, idx>>
    /\ UNCHANGED <<caller, nvmlUp, lastNvmlCall, failOnInitError, cycle,
                   lastEvent, extRestart, termReceived, restartTimeout,
                   restarting, arms>>

\* startPlugins: p.Start() on newPlugins[idx].  On failure startPlugins
\* returns (plugins, true, nil) and start() arms the 30 s timer and enters
\* the select loop; the failing handle itself is left down.
CallStart ==
    /\ \E ok \in BOOLEAN :
          IF ok
             THEN /\ newPlugins' = [newPlugins EXCEPT ![idx].starts = @ + 1]
                  /\ started' = started \cup {HandleId(newPlugins, idx)}
                  /\ idx' = idx + 1
                  /\ UNCHANGED <<pc, plugins, restartPlugins, restartTimeout,
                                 restarting, arms>>
             ELSE /\ plugins' = [newPlugins EXCEPT ![idx].starts = @ + 1]
                  /\ newPlugins' = <<>>
                  /\ restartPlugins' = TRUE
                  /\ restartTimeout' = "armed"
                  /\ arms' = arms + 1
                  /\ restarting' = TRUE
                  /\ pc' = "wait"
                  /\ UNCHANGED <<started, idx>>
    /\ UNCHANGED <<caller, nvmlUp, lastNvmlCall, failOnInitError, ret, cycle,
                   lastEvent, extRestart, termReceived>>

\* Mutant: Start is called without the len(p.Devices()) == 0 check.
StartPluginAnyDevices ==
    /\ pc = "startLoop"
    /\ idx <= Len(newPlugins)
    /\ CallStart

\* startPlugins: a handle with devices to serve is started.
StartPlugin ==
    /\ pc = "startLoop"
    /\ idx <= Len(newPlugins)
    /\ newPlugins[idx].devs > 0
    /\ CallStart

\* startPlugins: the loop is over, return (plugins, false, nil); start()
\* sets restarting and enters the select loop.
StartLoopDone ==
    /\ pc = "startLoop"
    /\ idx > Len(newPlugins)
    /\ plugins' = newPlugins
    /\ newPlugins' = <<>>
    /\ restartPlugins' = FALSE
    /\ restarting' = TRUE
    /\ pc' = "wait"
    /\ UNCHANGED <<caller, restartTimeout, idx, started, nvmlUp, lastNvmlCall,
                   failOnInitError, ret, cycle, arms, lastEvent, extRestart,
                   termReceived>>

\* Mutant: the timer keeps delivering after it fired (a ticker).
TimerFiredNotDrained ==
    /\ pc = "wait"
    /\ restartTimeout = "armed"
    /\ cycle < MaxCycles
    /\ lastEvent' = TimerEvent
    /\ pc' = "restart"
    /\ UNCHANGED <<caller, restarting, restartTimeout, restartPlugins,
                   plugins, newPlugins, idx, started, nvmlUp, lastNvmlCall,
                   failOnInitError, ret, cycle, arms, extRestart,
                   termReceived>>

\* select: case <-restartTimeout: goto restart.  A nil channel never
\* delivers; a time.After channel delivers once.
TimerFired ==
    /\ pc = "wait"
    /\ restartTimeout = "armed"
    /\ cycle < MaxCycles
    /\ restartTimeout' = "drained"
    /\ lastEvent' = TimerEvent
    /\ pc' = "restart"
    /\ UNCHANGED <<caller, restarting, restartPlugins, plugins, newPlugins,
                   idx, started, nvmlUp, lastNvmlCall, failOnInitError, ret,
                   cycle, arms, extRestart, termReceived>>

\* Mutant: any event on the kubelet socket restarts, whatever its Op.
FsEventAnyOp ==
    /\ pc = "wait"
    /\ \E n \in {KubeletSocket, OtherPath}, o \in 1..MaxOp :
          /\ lastEvent' = FsEventRec(n, o)
          /\ IF n = KubeletSocket
                THEN /\ cycle < MaxCycles
                     /\ pc' = "restart"
                     /\ extRestart' = TRUE
                ELSE UNCHANGED <<pc, extRestart>>
    /\ UNCHANGED <<caller, restarting, restartTimeout, restartPlugins,
                   plugins, newPlugins, idx, started, nvmlUp, lastNvmlCall,
                   failOnInitError, ret, cycle, arms, termReceived>>

\* select: case event := <-watcher.Events
FsEvent ==
    /\ pc = "wait"
    /\ \E n \in {KubeletSocket, OtherPath}, o \in 1..MaxOp :
          /\ lastEvent' = FsEventRec(n, o)
          /\ IF n = KubeletSocket /\ HasCreate(o)
                THEN /\ cycle < MaxCycles
                     /\ pc' = "restart"
                     /\ extRestart' = TRUE
                ELSE UNCHANGED <<pc, extRestart>>
    /\ UNCHANGED <<caller, restarting, restartTimeout, restartPlugins,
                   plugins, newPlugins, idx, started, nvmlUp, lastNvmlCall,
                   failOnInitError, ret, cycle, arms, termReceived>>

\* select: case err := <-watcher.Errors: log only.
FsError ==
    /\ pc = "wait"
    /\ lastEvent' = ErrorEvent
    /\ UNCHANGED <<pc, caller, restarting, restartTimeout, restartPlugins,
                   plugins, newPlugins, idx, started, nvmlUp, lastNvmlCall,
                   failOnInitError, ret, cycle, arms, extRestart,
                   termReceived>>

\* Mutant: SIGQUIT is handled like SIGHUP.
SignalQuitRestarts ==
    /\ pc = "wait"
    /\ \E s \in Signals :
          /\ lastEvent' = SignalRec(s)
          /\ IF s \in {SIGHUP, SIGQUIT}
                THEN /\ cycle < MaxCycles
                     /\ pc' = "restart"
                     /\ extRestart' = TRUE
                     /\ termReceived' = (s = SIGQUIT \/ termReceived)
                     /\ UNCHANGED <<caller, idx>>
                ELSE /\ pc' = "stopLoop"
                     /\ caller' = "exit"
                     /\ idx' = 1
                     /\ termReceived' = TRUE
                     /\ UNCHANGED extRestart
    /\ UNCHANGED <<restarting, restartTimeout, restartPlugins, plugins,
                   newPlugins, started, nvmlUp, lastNvmlCall, failOnInitError,
                   ret, cycle, arms>>

\* Mutant: a termination signal returns nil without stopPlugins.
SignalExitNoStop ==
    /\ pc = "wait"
    /\ \E s \in Signals :
          /\ lastEvent' = SignalRec(s)
          /\ IF s = SIGHUP
                THEN /\ cycle < MaxCycles
                     /\ pc' = "restart"
                     /\ extRestart' = TRUE
                     /\ UNCHANGED <<caller, idx, termReceived, ret>>
                ELSE /\ pc' = "done"
                     /\ ret' = "nil"
                     /\ termReceived' = TRUE
                     /\ UNCHANGED <<caller, idx, extRestart>>
    /\ UNCHANGED <<restarting, restartTimeout, restartPlugins, plugins,
                   newPlugins, started, nvmlUp, lastNvmlCall, failOnInitError,
                   cycle, arms>>

\* select: case s := <-sigs: SIGHUP restarts, every other signal goes to
\* exit: stopPlugins(plugins) and return.
Signal ==
    /\ pc = "wait"
    /\ \E s \in Signals :
          /\ lastEvent' = SignalRec(s)
          /\ IF s = SIGHUP
                THEN /\ cycle < MaxCycles
                     /\ pc' = "restart"
                     /\ extRestart' = TRUE
                     /\ UNCHANGED <<caller, idx, termReceived>>
                ELSE /\ pc' = "stopLoop"
                     /\ caller' = "exit"
                     /\ idx' = 1
                     /\ termReceived' = TRUE
                     /\ UNCHANGED extRestart
    /\ UNCHANGED <<restarting, restartTimeout, restartPlugins, plugins,
                   newPlugins, started, nvmlUp, lastNvmlCall, failOnInitError,
                   ret, cycle, arms>>

\* ===================================================== allocation engine

\* A device id string: <<uuid, annotation>>; annotation "" is the plain
\* string "uuid", anything else the string "uuid::annotation".
DeviceIds == {<<"A", "">>, <<"B", "">>, <<"A", "0">>}

\* AnnotatedID.HasAnnotations and AnnotatedIDs.AnyHasAnnotations.
HasAnnotations(id) == id[2] # ""

AnyHasAnnotations(ids) == \E i \in DOMAIN ids : HasAnnotations(ids[i])

Range(seq) == {seq[i] : i \in DOMAIN seq}

\* Devices: an order-preserving collection of devices keyed by id.
Contains(ds, id) == \E i \in DOMAIN ds : ds[i].id = id

ContainsMigDevices(ds) == \E i \in DOMAIN ds : ds[i].isMig

GetIDs(ds) == [i \in DOMAIN ds |-> ds[i].id]

DeviceOf(ds, id) == ds[CHOOSE i \in DOMAIN ds : ds[i].id = id]

\* Devices.Subset(ids): the devices of ds named in ids, once each, in the
\* order of ids.
RECURSIVE SubsetFrom(_, _, _)
SubsetFrom(ds, ids, acc) ==
    IF ids = <<>> THEN acc
    ELSE IF Contains(ds, Head(ids)) /\ ~Contains(acc, Head(ids))
            THEN SubsetFrom(ds, Tail(ids), Append(acc, DeviceOf(ds, Head(ids))))
            ELSE SubsetFrom(ds, Tail(ids), acc)

Subset(ds, ids) == SubsetFrom(ds, ids, <<>>)

\* Devices.Difference(ods): the devices of ds whose id is not in ods.
Difference(ds, ods) == SelectSeq(ds, LAMBDA d : ~Contains(ods, d.id))

Outcome(p, ids, e) == [policy |-> p, ids |-> ids, err |-> e]

\* gpuallocator.NewDevicesFrom(uuids): every uuid must resolve to a GPU of
\* the NVML inventory: the resource manager's devices and, when
\* othersResolve, also the ids it does not hold.
NewDevicesFromFails(ds, ids, othersResolve) ==
    \E i \in DOMAIN ids : ~Contains(ds, ids[i]) /\ ~othersResolve

\* The ids of set S in the order of their first occurrence in seq.
RECURSIVE InOrder(_, _)
InOrder(seq, S) ==
    IF seq = <<>> THEN <<>>
    ELSE IF Head(seq) \in S
            THEN <<Head(seq)>> \o InOrder(Tail(seq), S \ {Head(seq)})
            ELSE InOrder(Tail(seq), S)

\* alignedAllocationPolicy.Allocate(available, required, size): best
\* effort: a set of size devices of available that holds every required
\* device, any of them (the tie-break is the library's), or no device at
\* all when the request cannot be met.
Allocate(avail, req, n) ==
    LET sets == {S \in SUBSET Range(avail) :
                    Cardinality(S) = n /\ Range(req) \subseteq S}
    IN  IF n <= 0 \/ Len(avail) < n \/ Len(req) > n \/ sets = {}
           THEN {<<>>}
           ELSE {InOrder(avail, S) : S \in sets}

\* resourceManager.alignedAlloc: the outcomes it can return.
alignedAlloc(ds, avail, req, n) ==
    {Outcome("aligned", <<>>, TRUE) :
        o \in {b \in BOOLEAN : NewDevicesFromFails(ds, avail, b)
                                 \/ NewDevicesFromFails(ds, req, b)}}
    \cup
    {Outcome("aligned", ids, FALSE) :
        ids \in UNION {Allocate(avail, req, n) :
                  o \in {b \in BOOLEAN : /\ ~NewDevicesFromFails(ds, avail, b)
                                         /\ ~NewDevicesFromFails(ds, req, b)}}}

\* Mutant: the remainder is not reduced by the required devices.
allocNoDifference(ds, avail, req, n) ==
    LET remainder == GetIDs(Subset(ds, avail))
        devs == req \o remainder
    IN  IF Len(devs) < n
           THEN Outcome("fallback", <<>>, TRUE)
           ELSE Outcome("fallback", SubSeq(devs, 1, n), FALSE)

\* Mutant: the length test is off by one.
allocOffByOne(ds, avail, req, n) ==
    LET remainder == GetIDs(Difference(Subset(ds, avail), Subset(ds, req)))
        devs == req \o remainder
    IN  IF Len(devs) <= n
           THEN Outcome("fallback", <<>>, TRUE)
           ELSE Outcome("fallback", SubSeq(devs, 1, n), FALSE)

\* resourceManager.alloc
alloc(ds, avail, req, n) ==
    LET remainder == GetIDs(Difference(Subset(ds, avail), Subset(ds, req)))
        devs == req \o remainder
    IN  IF Len(devs) < n
           THEN Outcome("fallback", <<>>, TRUE)
           ELSE Outcome("fallback", SubSeq(devs, 1, n), FALSE)

\* Mutant: the annotations of available are not looked at.
getPreferredAllocationNoAnnotationCheck(ds, avail, req, n) ==
    IF ~ContainsMigDevices(ds)
       THEN alignedAlloc(ds, avail, req, n)
       ELSE {alloc(ds, avail, req, n)}

\* resourceManager.getPreferredAllocation: the outcomes it can return.
getPreferredAllocation(ds, avail, req, n) ==
    IF ~ContainsMigDevices(ds) /\ ~AnyHasAnnotations(avail)
       THEN alignedAlloc(ds, avail, req, n)
       ELSE {alloc(ds, avail, req, n)}

\* The requests and device sets explored.
IdLists == UNION {[1..n -> DeviceIds] : n \in 0..MaxLen}

\* Device sets over the ids, in one fixed order, each device a full GPU or
\* a MIG device.
RECURSIVE DeviceSetsOver(_)
DeviceSetsOver(idSeq) ==
    IF idSeq = <<>> THEN {<<>>}
    ELSE LET rest == DeviceSetsOver(Tail(idSeq))
         IN  rest \cup {<<[id |-> Head(idSeq), isMig |-> m]>> \o r :
                           m \in BOOLEAN, r \in rest}

DeviceSets == DeviceSetsOver(<<<<"A", "">>, <<"B", "">>, <<"A", "0">>>>)

NoResult == [call |-> "none", policy |-> "none", ids |-> <<>>, err |-> FALSE]

Called(c, o) == [call |-> c, policy |-> o.policy, ids |-> o.ids, err |-> o.err]

AllocInit ==
    /\ devices \in DeviceSets
    /\ available \in IdLists
    /\ required \in IdLists
    /\ size \in 0..MaxSize
    /\ result = NoResult

\* A request is decided by getPreferredAllocation.
CallGetPreferredAllocation ==
    /\ result.call = "none"
    /\ \E o \in getPreferredAllocation(devices, available, required, size) :
          result' = Called("getPreferredAllocation", o)
    /\ UNCHANGED <<devices, available, required, size>>

\* alloc applied to the request.
CallAlloc ==
    /\ result.call = "none"
    /\ result' = Called("alloc", alloc(devices, available, required, size))
    /\ UNCHANGED <<devices, available, required, size>>

\* alignedAlloc applied to the request.
CallAlignedAlloc ==
    /\ result.call = "none"
    /\ \E o \in alignedAlloc(devices, available, required, size) :
          result' = Called("alignedAlloc", o)
    /\ UNCHANGED <<devices, available, required, size>>

\* No allocation request is in progress.
AllocIdle ==
    /\ devices = <<>>
    /\ available = <<>>
    /\ required = <<>>
    /\ size = 0
    /\ result = NoResult

\* ======================================================= hardware queries
\* Return codes of the NVML library.
SUCCESS == "SUCCESS"
ERROR_NOT_FOUND == "ERROR_NOT_FOUND"
ERROR_INVALID_ARGUMENT == "ERROR_INVALID_ARGUMENT"
ERROR_TIMEOUT == "ERROR_TIMEOUT"
ERROR_UNKNOWN == "ERROR_UNKNOWN"

\* A Go pointer: nil, or the address of a value.
NilPtr == <<>>
Ptr(v) == <<v>>

\* A uint32 is kept as its two 16-bit halves <<high, low>>.
MaxHalf == 65535
Uint32(hi, lo) == <<hi, lo>>
\* 0xFFFFFFFF
AbsentMarker == Uint32(MaxHalf, MaxHalf)

\* uintPtr(c): the address of a uint holding c.
uintPtr(c) == Ptr(c)

NoCall == [fn |-> "none"]
NoReply == [fn |-> "none"]

\* No hardware query is in progress.
NvmlIdle == call = NoCall /\ reply = NoReply

\* ------------------------------------------------------ nvmlWaitForEvent
\* nvmlEvent{}
EmptyEvent ==
    [UUID |-> NilPtr, GpuInstanceID |-> NilPtr, ComputeInstanceID |-> NilPtr,
     Etype |-> 0, Edata |-> 0]

\* es: what es.Wait delivers (waitRet, EventType, EventData, GpuInstanceId,
\* ComputeInstanceId) and what the reporting device answers to GetUUID and
\* IsMigDeviceHandle.
nvmlWaitForEventRawIds(es) ==
    IF es.waitRet # SUCCESS
    THEN [fn |-> "nvmlWaitForEvent", event |-> EmptyEvent, err |-> es.waitRet]
    ELSE IF es.uuidRet # SUCCESS
    THEN [fn |-> "nvmlWaitForEvent", event |-> EmptyEvent, err |-> es.uuidRet]
    ELSE IF es.migRet # SUCCESS
    THEN [fn |-> "nvmlWaitForEvent", event |-> EmptyEvent, err |-> es.migRet]
    ELSE [fn |-> "nvmlWaitForEvent",
          event |-> [UUID |-> Ptr(es.uuid),
                     Etype |-> es.EventType,
                     Edata |-> es.EventData,
                     GpuInstanceID |-> uintPtr(es.GpuInstanceId),
                     ComputeInstanceID |-> uintPtr(es.ComputeInstanceId)],
          err |-> "nil"]

nvmlWaitForEvent(es) ==
    IF es.waitRet # SUCCESS
    THEN [fn |-> "nvmlWaitForEvent", event |-> EmptyEvent, err |-> es.waitRet]
    ELSE IF es.uuidRet # SUCCESS
    THEN [fn |-> "nvmlWaitForEvent", event |-> EmptyEvent, err |-> es.uuidRet]
    ELSE IF es.migRet # SUCCESS
    THEN [fn |-> "nvmlWaitForEvent", event |-> EmptyEvent, err |-> es.migRet]
    ELSE LET gi == IF ~es.isMig THEN AbsentMarker ELSE es.GpuInstanceId
             ci == IF ~es.isMig THEN AbsentMarker ELSE es.ComputeInstanceId
         IN  [fn |-> "nvmlWaitForEvent",
              event |-> [UUID |-> Ptr(es.uuid),
                         Etype |-> es.EventType,
                         Edata |-> es.EventData,
                         GpuInstanceID |-> uintPtr(gi),
                         ComputeInstanceID |-> uintPtr(ci)],
              err |-> "nil"]

\* Instance ids an event can carry: 0, 1 and 0xFFFFFFFF.
RawIds == {Uint32(0, 0), Uint32(0, 1), AbsentMarker}

WaitCalls ==
    [fn : {"nvmlWaitForEvent"},
     waitRet : {SUCCESS, ERROR_TIMEOUT, ERROR_UNKNOWN},
     uuidRet : {SUCCESS, ERROR_UNKNOWN},
     migRet : {SUCCESS, ERROR_UNKNOWN},
     isMig : BOOLEAN,
     uuid : {"GPU-a"},
     EventType : {8},
     EventData : {0, 79},
     GpuInstanceId : RawIds,
     ComputeInstanceId : RawIds]

CallWaitForEvent ==
    /\ call.fn = "nvmlWaitForEvent"
    /\ reply = NoReply
    /\ reply' = nvmlWaitForEvent(call)
    /\ UNCHANGED call

\* -------------------------------------------- nvmlRegisterEventForDevice
\* Physical devices enumerated by one hardware query.
MaxGpus == 2

Uuids == {"GPU-a", "GPU-b"}

DeviceNotFound == "nvml: device not found"

\* The loop of nvmlRegisterEventForDevice from index i on.  devs[i + 1] holds
\* what the library answers for index i: DeviceGetHandleByIndex (handleRet),
\* GetUUID (uuidRet, uuid) and RegisterEvents (regRet).  visited are the
\* indices queried, registered the indices RegisterEvents was called on.
RECURSIVE registerLoopRetry(_, _, _, _)
registerLoopRetry(devs, uuid, count, i) ==
    IF ~(i < count)
    THEN [err |-> DeviceNotFound, visited |-> <<>>, registered |-> <<>>]
    ELSE LET d == devs[i + 1]
             rest == registerLoopRetry(devs, uuid, count, i + 1)
         IN  IF d.handleRet # SUCCESS
             THEN [err |-> d.handleRet, visited |-> <<i>>, registered |-> <<>>]
             ELSE IF d.uuidRet # SUCCESS
             THEN [err |-> d.uuidRet, visited |-> <<i>>, registered |-> <<>>]
             ELSE IF d.uuid # uuid
             THEN [rest EXCEPT !.visited = <<i>> \o @]
             ELSE IF d.regRet # SUCCESS
             THEN [rest EXCEPT !.visited = <<i>> \o @,
                               !.registered = <<i>> \o @]
             ELSE [err |-> "nil", visited |-> <<i>>, registered |-> <<i>>]

RECURSIVE registerLoop(_, _, _, _)
registerLoop(devs, uuid, count, i) ==
    IF ~(i < count)
    THEN [err |-> DeviceNotFound, visited |-> <<>>, registered |-> <<>>]
    ELSE LET d == devs[i + 1]
             rest == registerLoop(devs, uuid, count, i + 1)
         IN  IF d.handleRet # SUCCESS
             THEN [err |-> d.handleRet, visited |-> <<i>>, registered |-> <<>>]
             ELSE IF d.uuidRet # SUCCESS
             THEN [err |-> d.uuidRet, visited |-> <<i>>, registered |-> <<>>]
             ELSE IF d.uuid # uuid
             THEN [rest EXCEPT !.visited = <<i>> \o @]
             ELSE IF d.regRet # SUCCESS
             THEN [err |-> d.regRet, visited |-> <<i>>, registered |-> <<i>>]
             ELSE [err |-> "nil", visited |-> <<i>>, registered |-> <<i>>]

\* c: the requested uuid, the answer of DeviceGetCount (countRet; the count
\* is the number of devices) and the devices.
nvmlRegisterEventForDevice(c) ==
    IF c.countRet # SUCCESS
    THEN [fn |-> "nvmlRegisterEventForDevice", err |-> c.countRet,
          visited |-> <<>>, registered |-> <<>>]
    ELSE LET r == registerLoop(c.devs, c.uuid, Len(c.devs), 0)
         IN  [fn |-> "nvmlRegisterEventForDevice", err |-> r.err,
              visited |-> r.visited, registered |-> r.registered]

GpuAnswers ==
    [handleRet : {SUCCESS, ERROR_UNKNOWN},
     uuidRet : {SUCCESS, ERROR_UNKNOWN},
     uuid : Uuids,
     regRet : {SUCCESS, ERROR_UNKNOWN}]

RECURSIVE SeqsUpTo(_, _)
SeqsUpTo(S, n) ==
    IF n = 0 THEN {<<>>}
    ELSE LET shorter == SeqsUpTo(S, n - 1)
         IN  shorter \cup {Append(q, x) : q \in shorter, x \in S}

RegisterCalls ==
    [fn : {"nvmlRegisterEventForDevice"},
     uuid : {"GPU-a"},
     countRet : {SUCCESS, ERROR_UNKNOWN},
     devs : SeqsUpTo(GpuAnswers, MaxGpus)]

CallRegisterEventForDevice ==
    /\ call.fn = "nvmlRegisterEventForDevice"
    /\ reply = NoReply
    /\ reply' = nvmlRegisterEventForDevice(call)
    /\ UNCHANGED call

\* -------------------------------------------- nvmlDevice.walkMigDevices
\* Partition slots of one device (GetMaxMigDeviceCount).
MaxSlots == 2

CallbackError == "callback error"

\* The loop of nvmlDevice.walkMigDevices from slot i on.  slots[i + 1] holds
\* what GetMigDeviceHandleByIndex(i) answers (ret) and whether the callback
\* f fails on that slot (cbErr).  visited are the slots queried, called the
\* slots f was invoked on.
RECURSIVE walkLoopAbortOnNotFound(_, _, _)
walkLoopAbortOnNotFound(slots, count, i) ==
    IF ~(i < count)
    THEN [err |-> "nil", visited |-> <<>>, called |-> <<>>]
    ELSE LET s == slots[i + 1]
             rest == walkLoopAbortOnNotFound(slots, count, i + 1)
         IN  IF s.ret = ERROR_INVALID_ARGUMENT
             THEN [rest EXCEPT !.visited = <<i>> \o @]
             ELSE IF s.ret # SUCCESS
             THEN [err |-> s.ret, visited |-> <<i>>, called |-> <<>>]
             ELSE IF s.cbErr
             THEN [err |-> CallbackError, visited |-> <<i>>, called |-> <<i>>]
             ELSE [rest EXCEPT !.visited = <<i>> \o @, !.called = <<i>> \o @]

RECURSIVE walkLoop(_, _, _)
walkLoop(slots, count, i) ==
    IF ~(i < count)
    THEN [err |-> "nil", visited |-> <<>>, called |-> <<>>]
    ELSE LET s == slots[i + 1]
             rest == walkLoop(slots, count, i + 1)
         IN  IF s.ret = ERROR_NOT_FOUND
             THEN [rest EXCEPT !.visited = <<i>> \o @]
             ELSE IF s.ret = ERROR_INVALID_ARGUMENT
             THEN [rest EXCEPT !.visited = <<i>> \o @]
             ELSE IF s.ret # SUCCESS
             THEN [err |-> s.ret, visited |-> <<i>>, called |-> <<>>]
             ELSE IF s.cbErr
             THEN [err |-> CallbackError, visited |-> <<i>>, called |-> <<i>>]
             ELSE [rest EXCEPT !.visited = <<i>> \o @, !.called = <<i>> \o @]

\* c: the answer of GetMaxMigDeviceCount (countRet; the count is the number
\* of slots) and the slots.
walkMigDevices(c) ==
    IF c.countRet # SUCCESS
    THEN [fn |-> "walkMigDevices", err |-> c.countRet,
          visited |-> <<>>, called |-> <<>>]
    ELSE LET r == walkLoop(c.slots, Len(c.slots), 0)
         IN  [fn |-> "walkMigDevices", err |-> r.err,
              visited |-> r.visited, called |-> r.called]

SlotAnswers ==
    [ret : {SUCCESS, ERROR_NOT_FOUND, ERROR_INVALID_ARGUMENT, ERROR_UNKNOWN},
     cbErr : BOOLEAN]

WalkCalls ==
    [fn : {"walkMigDevices"},
     countRet : {SUCCESS, ERROR_UNKNOWN},
     slots : SeqsUpTo(SlotAnswers, MaxSlots)]

CallWalkMigDevices ==
    /\ call.fn = "walkMigDevices"
    /\ reply = NoReply
    /\ reply' = walkMigDevices(call)
    /\ UNCHANGED call

\* --------------------------------------------------------- getMigProfile
\* Largest slice count of a partition.
MaxSlices == 2

MBPerGB == 1024

\* d: whether nvmlLookupSymbol finds the symbol (symbolFound) and what
\* IsMigDeviceHandle answers (migRet, isMig).
isMigDevice(d) ==
    IF ~d.symbolFound
    THEN [isMig |-> FALSE, err |-> "nil"]
    ELSE IF d.migRet # SUCCESS
    THEN [isMig |-> FALSE, err |-> d.migRet]
    ELSE [isMig |-> d.isMig, err |-> "nil"]

\* fmt.Sprintf("%dg.%dgb", g, gb)
SprintfG(g, gb) == ToString(g) \o "g." \o ToString(gb) \o "gb"

\* fmt.Sprintf("%dc.%dg.%dgb", c, g, gb)
SprintfCG(c, g, gb) ==
    ToString(c) \o "c." \o ToString(g) \o "g." \o ToString(gb) \o "gb"

NotMigDevice == "device handle is not a MIG device"

\* d: the device and what GetAttributes answers (attrRet,
\* GpuInstanceSliceCount, ComputeInstanceSliceCount, MemorySizeMB).
getMigProfileFloor(d) ==
    LET m == isMigDevice(d)
    IN  IF m.err # "nil"
        THEN [fn |-> "getMigProfile", p |-> "", err |-> m.err]
        ELSE IF ~m.isMig
        THEN [fn |-> "getMigProfile", p |-> "", err |-> NotMigDevice]
        ELSE IF d.attrRet # SUCCESS
        THEN [fn |-> "getMigProfile", p |-> "", err |-> d.attrRet]
        ELSE LET g == d.GpuInstanceSliceCount
                 c == d.ComputeInstanceSliceCount
                 gb == d.MemorySizeMB \div MBPerGB
             IN  [fn |-> "getMigProfile",
                  p |-> IF g = c THEN SprintfG(g, gb) ELSE SprintfCG(c, g, gb),
                  err |-> "nil"]

getMigProfile(d) ==
    LET m == isMigDevice(d)
    IN  IF m.err # "nil"
        THEN [fn |-> "getMigProfile", p |-> "", err |-> m.err]
        ELSE IF ~m.isMig
        THEN [fn |-> "getMigProfile", p |-> "", err |-> NotMigDevice]
        ELSE IF d.attrRet # SUCCESS
        THEN [fn |-> "getMigProfile", p |-> "", err |-> d.attrRet]
        ELSE LET g == d.GpuInstanceSliceCount
                 c == d.ComputeInstanceSliceCount
                 gb == (d.MemorySizeMB + MBPerGB - 1) \div MBPerGB
             IN  [fn |-> "getMigProfile",
                  p |-> IF g = c THEN SprintfG(g, gb) ELSE SprintfCG(c, g, gb),
                  err |-> "nil"]

\* Memory sizes in MB: multiples of 1024 and sizes one off a multiple.
MemorySizes == {1, 1024, 4864, 10240, 10241, 20480}

ProfileCalls ==
    [fn : {"getMigProfile"},
     symbolFound : BOOLEAN,
     migRet : {SUCCESS, ERROR_UNKNOWN},
     isMig : BOOLEAN,
     attrRet : {SUCCESS, ERROR_UNKNOWN},
     GpuInstanceSliceCount : 1..MaxSlices,
     ComputeInstanceSliceCount : 1..MaxSlices,
     MemorySizeMB : MemorySizes]

CallGetMigProfile ==
    /\ call.fn = "getMigProfile"
    /\ reply = NoReply
    /\ reply' = getMigProfile(call)
    /\ UNCHANGED call

\* ----------------------------------------------------------- getNumaNode
\* Strings that are taken apart are kept as sequences of characters.
\* strings.TrimPrefix(s, prefix)
TrimPrefix(s, prefix) ==
    IF Len(s) >= Len(prefix) /\ SubSeq(s, 1, Len(prefix)) = prefix
    THEN SubSeq(s, Len(prefix) + 1, Len(s))
    ELSE s

\* Lower-case form of one character (bus ids hold hexadecimal digits).
ToLowerChar(ch) ==
    CASE ch = "A" -> "a"
      [] ch = "B" -> "b"
      [] ch = "C" -> "c"
      [] ch = "D" -> "d"
      [] ch = "E" -> "e"
      [] ch = "F" -> "f"
      [] OTHER -> ch

\* strings.ToLower(s)
ToLower(s) == [i \in 1..Len(s) |-> ToLowerChar(s[i])]

\* The name of the device's directory under /sys/bus/pci/devices.
busIDNoFold(s) == TrimPrefix(s, <<"0", "0", "0", "0">>)

busID(s) == ToLower(TrimPrefix(s, <<"0", "0", "0", "0">>))

\* bytes.TrimSpace(b)
RECURSIVE TrimLeft(_)
TrimLeft(b) ==
    IF b # <<>> /\ Head(b) \in {" ", "\n"} THEN TrimLeft(Tail(b)) ELSE b

RECURSIVE TrimRight(_)
TrimRight(b) ==
    IF b # <<>> /\ b[Len(b)] \in {" ", "\n"}
    THEN TrimRight(SubSeq(b, 1, Len(b) - 1))
    ELSE b

TrimSpace(b) == TrimRight(TrimLeft(b))

DigitValue ==
    [ch \in {"0", "1", "2", "3", "4", "5", "6", "7", "8", "9"} |->
        CASE ch = "0" -> 0 [] ch = "1" -> 1 [] ch = "2" -> 2 [] ch = "3" -> 3
          [] ch = "4" -> 4 [] ch = "5" -> 5 [] ch = "6" -> 6 [] ch = "7" -> 7
          [] ch = "8" -> 8 [] ch = "9" -> 9]

\* Value of a sequence of decimal digits.
RECURSIVE Magnitude(_)
Magnitude(ds) ==
    IF ds = <<>> THEN 0
    ELSE Magnitude(SubSeq(ds, 1, Len(ds) - 1)) * 10 + DigitValue[ds[Len(ds)]]

\* bitSize argument of strconv.ParseInt.
bitSize == 8

\* strconv.ParseInt(s, 10, bitSize)
ParseInt(s) ==
    LET signed == s # <<>> /\ Head(s) \in {"+", "-"}
        ds == IF signed THEN Tail(s) ELSE s
        neg == signed /\ Head(s) = "-"
    IN  IF ds = <<>> \/ \E i \in 1..Len(ds) : ds[i] \notin DOMAIN DigitValue
        THEN [val |-> 0, err |-> "invalid syntax"]
        ELSE LET v == IF neg THEN 0 - Magnitude(ds) ELSE Magnitude(ds)
             IN  IF v > 2^(bitSize - 1) - 1 \/ v < 0 - 2^(bitSize - 1)
                 THEN [val |-> 0, err |-> "value out of range"]
                 ELSE [val |-> v, err |-> "nil"]

\* os.ReadFile on a file in the given state.
ReadFile(file) ==
    IF file.errno # "nil"
    THEN [b |-> <<>>, err |-> file.errno]
    ELSE [b |-> file.data, err |-> "nil"]

\* d: the device (symbolFound, migRet, isMig), the answers of
\* GetDeviceHandleFromMigDeviceHandle (parentRet) and GetPciInfo (pciRet),
\* the text of info.BusId of the device and of its parent, and the state of
\* the numa_node file that is read.  key is the directory name the file was
\* looked up under.
getNumaNode(d) ==
    LET m == isMigDevice(d)
        failed(e) ==
            [fn |-> "getNumaNode", node |-> NilPtr, err |-> e, key |-> <<>>]
    IN  IF m.err # "nil" THEN failed(m.err)
        ELSE IF m.isMig /\ d.parentRet # SUCCESS THEN failed(d.parentRet)
        ELSE IF d.pciRet # SUCCESS THEN failed(d.pciRet)
        ELSE LET bus == IF m.isMig THEN d.parentBusId ELSE d.BusId
                 k == busID(bus)
                 r == ReadFile(d.file)
                 n == ParseInt(TrimSpace(r.b))
             IN  IF r.err # "nil"
                 THEN [fn |-> "getNumaNode", node |-> NilPtr, err |-> "nil",
                       key |-> k]
                 ELSE IF n.err # "nil"
                 THEN [fn |-> "getNumaNode", node |-> NilPtr, err |-> n.err,
                       key |-> k]
                 ELSE IF n.val < 0
                 THEN [fn |-> "getNumaNode", node |-> NilPtr, err |-> "nil",
                       key |-> k]
                 ELSE [fn |-> "getNumaNode", node |-> Ptr(n.val),
                       err |-> "nil", key |-> k]

\* "0000:3B:00.0"
ShortBusId == <<"0", "0", "0", "0", ":", "3", "B", ":", "0", "0", ".", "0">>
\* "00000000:3B:00.0", the form NVML fills info.BusId with
LongBusId == <<"0", "0", "0", "0">> \o ShortBusId
\* "0001:AF:00.0"
OtherBusId == <<"0", "0", "0", "1", ":", "A", "F", ":", "0", "0", ".", "0">>

BusIds == {ShortBusId, LongBusId, OtherBusId}

\* Contents of a numa_node file: -1, 0, 1, 127, 128, text that is no number,
\* nothing.
FileContents ==
    {<<"-", "1", "\n">>, <<"0", "\n">>, <<"1", "\n">>, <<"1", "2", "7", "\n">>,
     <<"1", "2", "8", "\n">>, <<"x", "\n">>, <<>>}

\* The file is missing (ENOENT), present and unreadable (EACCES, EIO), or
\* present and readable.
FileStates ==
    {[errno |-> e, data |-> <<>>] : e \in {"ENOENT", "EACCES", "EIO"}}
        \cup {[errno |-> "nil", data |-> t] : t \in FileContents}

NumaCalls ==
    [fn : {"getNumaNode"},
     symbolFound : BOOLEAN,
     migRet : {SUCCESS, ERROR_UNKNOWN},
     isMig : BOOLEAN,
     parentRet : {SUCCESS, ERROR_UNKNOWN},
     pciRet : {SUCCESS, ERROR_UNKNOWN},
     BusId : BusIds,
     parentBusId : BusIds,
     file : FileStates]

CallGetNumaNode ==
    /\ call.fn = "getNumaNode"
    /\ reply = NoReply
    /\ reply' = getNumaNode(call)
    /\ UNCHANGED call

\* ------------------------------------------------------- walkMigProfiles
ERROR_NOT_SUPPORTED == "ERROR_NOT_SUPPORTED"

\* nvml.GPU_INSTANCE_PROFILE_COUNT, scaled down to two profile slots.
GPU_INSTANCE_PROFILE_COUNT == 2

\* gpu: whether nvmlLookupSymbol finds nvmlDeviceGetMigMode (symbolFound) and
\* what GetMigMode answers (migModeRet).
isMigCapable(gpu) ==
    IF ~gpu.symbolFound
    THEN [capable |-> FALSE, err |-> "nil"]
    ELSE IF gpu.migModeRet = ERROR_NOT_SUPPORTED
    THEN [capable |-> FALSE, err |-> "nil"]
    ELSE IF gpu.migModeRet # SUCCESS
    THEN [capable |-> FALSE, err |-> gpu.migModeRet]
    ELSE [capable |-> TRUE, err |-> "nil"]

\* The profile string of one GPU-instance profile.
giProfileName(info) ==
    SprintfG(info.SliceCount, (info.MemorySizeMB + MBPerGB - 1) \div MBPerGB)

\* The loop over the profile slots of one capable GPU, from slot j on.
\* slots[j + 1] is what GetGpuInstanceProfileInfo(j) answers; failOn are the
\* profile strings the callback f fails on; st carries the map visited and
\* the strings handed to f so far (delivered).
RECURSIVE profileLoopNoDedup(_, _, _, _)
profileLoopNoDedup(slots, failOn, j, st) ==
    IF ~(j < GPU_INSTANCE_PROFILE_COUNT)
    THEN [err |-> "nil", visited |-> st.visited, delivered |-> st.delivered]
    ELSE LET s == slots[j + 1]
             p == giProfileName(s)
         IN  IF s.ret = ERROR_NOT_SUPPORTED
             THEN profileLoopNoDedup(slots, failOn, j + 1, st)
             ELSE IF s.ret = ERROR_INVALID_ARGUMENT
             THEN profileLoopNoDedup(slots, failOn, j + 1, st)
             ELSE IF s.ret # SUCCESS
             THEN [err |-> s.ret, visited |-> st.visited,
                   delivered |-> st.delivered]
             ELSE IF p \in failOn
             THEN [err |-> CallbackError, visited |-> st.visited,
                   delivered |-> Append(st.delivered, p)]
             ELSE profileLoopNoDedup(slots, failOn, j + 1,
                      [visited |-> st.visited \cup {p},
                       delivered |-> Append(st.delivered, p)])

RECURSIVE profileLoop(_, _, _, _)
profileLoop(slots, failOn, j, st) ==
    IF ~(j < GPU_INSTANCE_PROFILE_COUNT)
    THEN [err |-> "nil", visited |-> st.visited, delivered |-> st.delivered]
    ELSE LET s == slots[j + 1]
             p == giProfileName(s)
         IN  IF s.ret = ERROR_NOT_SUPPORTED
             THEN profileLoop(slots, failOn, j + 1, st)
             ELSE IF s.ret = ERROR_INVALID_ARGUMENT
             THEN profileLoop(slots, failOn, j + 1, st)
             ELSE IF s.ret # SUCCESS
             THEN [err |-> s.ret, visited |-> st.visited,
                   delivered |-> st.delivered]
             ELSE IF p \in st.visited
             THEN profileLoop(slots, failOn, j + 1, st)
             ELSE IF p \in failOn
             THEN [err |-> CallbackError, visited |-> st.visited,
                   delivered |-> Append(st.delivered, p)]
             ELSE profileLoop(slots, failOn, j + 1,
                      [visited |-> st.visited \cup {p},
                       delivered |-> Append(st.delivered, p)])

\* The loop of walkGPUDevices from GPU i on, with the callback of
\* walkMigProfiles applied to each GPU.
RECURSIVE walkGPUDevices(_, _, _, _, _)
walkGPUDevices(gpus, failOn, count, i, st) ==
    IF ~(i < count)
    THEN [err |-> "nil", visited |-> st.visited, delivered |-> st.delivered]
    ELSE LET gpu == gpus[i + 1]
             m == isMigCapable(gpu)
             r == profileLoop(gpu.slots, failOn, 0, st)
         IN  IF gpu.handleRet # SUCCESS
             THEN [err |-> gpu.handleRet, visited |-> st.visited,
                   delivered |-> st.delivered]
             ELSE IF m.err # "nil"
             THEN [err |-> m.err, visited |-> st.visited,
                   delivered |-> st.delivered]
             ELSE IF ~m.capable
             THEN walkGPUDevices(gpus, failOn, count, i + 1, st)
             ELSE IF r.err # "nil"
             THEN r
             ELSE walkGPUDevices(gpus, failOn, count, i + 1,
                      [visited |-> r.visited, delivered |-> r.delivered])

\* c: the answer of DeviceGetCount (countRet; the count is the number of
\* GPUs), the GPUs and the strings the callback fails on.
walkMigProfiles(c) ==
    IF c.countRet # SUCCESS
    THEN [fn |-> "walkMigProfiles", err |-> c.countRet,
          visited |-> {}, delivered |-> <<>>]
    ELSE LET r == walkGPUDevices(c.gpus, c.failOn, Len(c.gpus), 0,
                                 [visited |-> {}, delivered |-> <<>>])
         IN  [fn |-> "walkMigProfiles", err |-> r.err,
              visited |-> r.visited, delivered |-> r.delivered]

\* Answers of GetGpuInstanceProfileInfo: the tolerated codes, a failure, and
\* three profiles of which two have the same name "1g.5gb".
ProfileAnswers ==
    {[ret |-> e, SliceCount |-> 0, MemorySizeMB |-> 0] :
        e \in {ERROR_NOT_SUPPORTED, ERROR_INVALID_ARGUMENT, ERROR_UNKNOWN}}
      \cup {[ret |-> SUCCESS, SliceCount |-> 1, MemorySizeMB |-> 4864],
            [ret |-> SUCCESS, SliceCount |-> 1, MemorySizeMB |-> 5120],
            [ret |-> SUCCESS, SliceCount |-> 2, MemorySizeMB |-> 10240]}

\* The profile slots of a GPU that is not walked: both hold "3g.20gb".
UnwalkedSlots ==
    [j \in 1..GPU_INSTANCE_PROFILE_COUNT |->
        [ret |-> SUCCESS, SliceCount |-> 3, MemorySizeMB |-> 20096]]

\* A GPU whose handle query fails, GPUs that are not MIG capable or whose
\* MIG mode query fails, and capable GPUs with every combination of slots.
ProfileGpus ==
    {[handleRet |-> ERROR_UNKNOWN, symbolFound |-> TRUE,
      migModeRet |-> SUCCESS, slots |-> UnwalkedSlots],
     [handleRet |-> SUCCESS, symbolFound |-> FALSE,
      migModeRet |-> SUCCESS, slots |-> UnwalkedSlots],
     [handleRet |-> SUCCESS, symbolFound |-> TRUE,
      migModeRet |-> ERROR_NOT_SUPPORTED, slots |-> UnwalkedSlots],
     [handleRet |-> SUCCESS, symbolFound |-> TRUE,
      migModeRet |-> ERROR_UNKNOWN, slots |-> UnwalkedSlots]}
      \cup [handleRet : {SUCCESS}, symbolFound : {TRUE}, migModeRet : {SUCCESS},
            slots : [1..GPU_INSTANCE_PROFILE_COUNT -> ProfileAnswers]]

ProfileWalkCalls ==
    [fn : {"walkMigProfiles"}, countRet : {ERROR_UNKNOWN}, gpus : {<<>>},
     failOn : {{}}]
      \cup [fn : {"walkMigProfiles"},
            countRet : {SUCCESS},
            gpus : SeqsUpTo(ProfileGpus, MaxGpus),
            failOn : {{}, {"1g.5gb"}, {"2g.10gb"}}]

CallWalkMigProfiles ==
    /\ call.fn = "walkMigProfiles"
    /\ reply = NoReply
    /\ reply' = walkMigProfiles(call)
    /\ UNCHANGED call

\* ========================================================= specifications
Init == SupInit /\ AllocIdle /\ NvmlIdle

Next ==
    \/ RestartLabel /\ UNCHANGED <<allocVars, nvmlVars>>
    \/ StopPlugin /\ UNCHANGED <<allocVars, nvmlVars>>
    \/ StopLoopDone /\ UNCHANGED <<allocVars, nvmlVars>>
    \/ NvmlShutdown /\ UNCHANGED <<allocVars, nvmlVars>>
    \/ LoadConfig /\ UNCHANGED <<allocVars, nvmlVars>>
    \/ NvmlInit /\ UNCHANGED <<allocVars, nvmlVars>>
    \/ GetPlugins /\ UNCHANGED <<allocVars, nvmlVars>>
    \/ SkipPlugin /\ UNCHANGED <<allocVars, nvmlVars>>
    \/ StartPlugin /\ UNCHANGED <<allocVars, nvmlVars>>
    \/ StartLoopDone /\ UNCHANGED <<allocVars, nvmlVars>>
    \/ TimerFired /\ UNCHANGED <<allocVars, nvmlVars>>
    \/ FsEvent /\ UNCHANGED <<allocVars, nvmlVars>>
    \/ FsError /\ UNCHANGED <<allocVars, nvmlVars>>
    \/ Signal /\ UNCHANGED <<allocVars, nvmlVars>>

Spec == Init /\ [][Next]_vars

\* The supervisor before its first step, while requests are decided.
SupIdle == SupInit /\ failOnInitError = TRUE

InitAlloc == SupIdle /\ AllocInit /\ NvmlIdle

NextAlloc ==
    \/ CallGetPreferredAllocation /\ UNCHANGED <<supVars, nvmlVars>>
    \/ CallAlloc /\ UNCHANGED <<supVars, nvmlVars>>
    \/ CallAlignedAlloc /\ UNCHANGED <<supVars, nvmlVars>>

SpecAlloc == InitAlloc /\ [][NextAlloc]_vars

\* Hardware queries: one query, answered once.
NvmlCalls ==
    WaitCalls \cup RegisterCalls \cup WalkCalls \cup ProfileCalls
        \cup NumaCalls \cup ProfileWalkCalls

InitNvml == SupIdle /\ AllocIdle /\ call \in NvmlCalls /\ reply = NoReply

NextNvml ==
    \/ CallWaitForEvent /\ UNCHANGED <<supVars, allocVars>>
    \/ CallRegisterEventForDevice /\ UNCHANGED <<supVars, allocVars>>
    \/ CallWalkMigDevices /\ UNCHANGED <<supVars, allocVars>>
    \/ CallGetMigProfile /\ UNCHANGED <<supVars, allocVars>>
    \/ CallGetNumaNode /\ UNCHANGED <<supVars, allocVars>>
    \/ CallWalkMigProfiles /\ UNCHANGED <<supVars, allocVars>>

SpecNvml == InitNvml /\ [][NextNvml]_vars

\* ================================================= supervisor properties

\* Number of Start calls made on the handles of a list.
RECURSIVE SumStarts(_)
SumStarts(ps) ==
    IF ps = <<>> THEN 0 ELSE Head(ps).starts + SumStarts(Tail(ps))

AllStopped(ps) == \A i \in DOMAIN ps : ps[i].stops >= 1

\* C1: endpoints of two different cycles are never started at the same
\* time: every started endpoint belongs to the current cycle, and from the
\* end of the restart path's stop loop until the new handles are started,
\* Stop has been called on every handle of the previous cycle and none of
\* them is still started.
C1_NoOverlap ==
    /\ \A h \in started : h[1] = cycle
    /\ (restarting /\ pc \in {"loadConfig", "nvmlInit", "getPlugins"}) =>
          (started = {} /\ AllStopped(plugins))
    /\ (restarting /\ pc = "startLoop") =>
          /\ AllStopped(plugins)
          /\ \A i \in DOMAIN plugins : HandleId(plugins, i) \notin started
          /\ \A h \in started : h[2] \in DOMAIN newPlugins /\ h[2] < idx

\* Witness C1: a second cycle has started an endpoint after the first
\* cycle's started endpoint was stopped.
C1_Witness ==
    /\ pc = "startLoop"
    /\ cycle >= 2
    /\ started # {}
    /\ \E i \in DOMAIN plugins : plugins[i].starts = 1 /\ plugins[i].stops = 1

\* C2 (as claimed): while the supervisor waits for the backoff timer after
\* a Start failure, no endpoint of the failed cycle is in the started state.
C2_Original ==
    (pc = "wait" /\ restartPlugins) => started = {}

\* C2 (amended): a Start failure stops nothing: during the backoff wait no
\* Stop call has been made on the failed cycle's handles and exactly the
\* endpoints started before the failing one are still started; all handles
\* of the failed cycle have been stopped once the stop loop of the next
\* restart or of the termination path is over.
C2_StoppedAtNextRestart ==
    /\ (pc = "wait" /\ restartPlugins) =>
          /\ \A i \in DOMAIN plugins : plugins[i].stops = 0
          /\ idx \in DOMAIN plugins
          /\ plugins[idx].starts = 1
          /\ started = {HandleId(plugins, i) :
                           i \in {j \in 1..(idx - 1) : plugins[j].devs > 0}}
    /\ (pc = "nvmlShutdown" /\ restartPlugins) =>
          /\ started = {}
          /\ \A i \in DOMAIN plugins : plugins[i].stops = 1

\* Witness C2: the supervisor waits for the backoff timer while an endpoint
\* of the failed cycle is still started.
C2_Witness ==
    /\ pc = "wait"
    /\ restartPlugins
    /\ restartTimeout = "armed"
    /\ started # {}

\* C3: as long as no cycle was triggered by a socket creation or SIGHUP,
\* the timer is pending in the wait loop iff the last cycle had a Start
\* failure, and the number of cycles run is one (the initial cycle) plus
\* the number of armed timers that have fired: each arming causes exactly
\* one retry and a fully successful cycle leaves no timer to fire.
C3_OneRetryPerTick ==
    (pc = "wait" /\ ~extRestart) =>
        /\ (restartTimeout = "armed") <=> restartPlugins
        /\ cycle = arms + (IF restartPlugins THEN 0 ELSE 1)

\* Witness C3: two failed cycles, each retried by its timer, then a cycle
\* in which every Start succeeded.
C3_Witness ==
    /\ pc = "wait"
    /\ ~extRestart
    /\ ~restartPlugins
    /\ arms = 2
    /\ cycle = 3
    /\ started # {}

\* C4: once a termination-class signal is received, Stop is called on
\* every owned handle, then NVML is shut down, then start() returns; no
\* Start call and no new cycle happens from the signal on.
C4_TerminationDrains ==
    /\ [](termReceived => pc \in {"stopLoop", "nvmlShutdown", "done"})
    /\ []((termReceived /\ pc \in {"nvmlShutdown", "done"}) =>
             (started = {} /\ AllStopped(plugins)))
    /\ []((termReceived /\ pc = "done") =>
             (ret \in {"nil", "err"} /\ (ret = "nil" => ~nvmlUp)))
    /\ [][termReceived' =>
             /\ cycle' = cycle
             /\ started' \subseteq started
             /\ SumStarts(plugins') = SumStarts(plugins)
             /\ newPlugins' = newPlugins]_vars

\* Witness C4: start() returned nil after a termination signal, with an
\* endpoint that had been started.
C4_Witness ==
    /\ termReceived
    /\ pc = "done"
    /\ ret = "nil"
    /\ \E i \in DOMAIN plugins : plugins[i].starts = 1

\* The events that begin a new cycle.
RestartClass(e) ==
    \/ e.kind = "timer"
    \/ e.kind = "fs" /\ e.name = KubeletSocket /\ e.op % 2 = 1
    \/ e.kind = "signal" /\ e.sig = SIGHUP

TerminationClass(e) ==
    e.kind = "signal" /\ e.sig \in {SIGINT, SIGTERM, SIGQUIT}

\* C5: in the wait loop a new cycle begins iff the event received is the
\* timer, a Create of the kubelet socket or SIGHUP; any other filesystem
\* event and any watcher error changes neither the handles nor the started
\* endpoints; and a cycle begins nowhere else than in the wait loop.
C5_RestartTriggers ==
    [][/\ pc = "wait" =>
            /\ (pc' = "restart") <=> RestartClass(lastEvent')
            /\ (~RestartClass(lastEvent') /\ ~TerminationClass(lastEvent')) =>
                   UNCHANGED <<pc, plugins, newPlugins, started, cycle,
                               restartTimeout, nvmlUp>>
       /\ (pc # "wait" /\ pc # "restart") => pc' # "restart"]_vars

\* Witness C5: a non-create event on the kubelet socket was received while
\* endpoints were started, and the supervisor is still waiting.
C5_Witness ==
    /\ pc = "wait"
    /\ lastEvent = FsEventRec(KubeletSocket, 2)
    /\ started # {}

\* C10: Start is never called on a handle serving zero devices and at most
\* once on any handle; after a cycle without Start failure it has been
\* called exactly once on every handle with at least one device.
C10_StartOnlyWithDevices ==
    /\ \A ps \in {plugins, newPlugins} : \A i \in DOMAIN ps :
          /\ ps[i].starts <= 1
          /\ ps[i].devs = 0 => (ps[i].starts = 0 /\ HandleId(ps, i) \notin started)
    /\ (pc = "wait" /\ ~restartPlugins) =>
          \A i \in DOMAIN plugins :
             plugins[i].starts = (IF plugins[i].devs > 0 THEN 1 ELSE 0)

\* Witness C10: a cycle without failure whose list holds a handle with no
\* device, not started, and a handle with devices, started.
C10_Witness ==
    /\ pc = "wait"
    /\ ~restartPlugins
    /\ \E i, j \in DOMAIN plugins :
          /\ plugins[i].devs = 0 /\ plugins[i].starts = 0
          /\ plugins[j].devs > 0 /\ plugins[j].starts = 1
          /\ HandleId(plugins, j) \in started

\* ========================================== allocation engine properties

NoDuplicates(seq) == \A i, j \in DOMAIN seq : i # j => seq[i] # seq[j]

IsPrefix(pre, seq) ==
    Len(pre) <= Len(seq) /\ \A i \in DOMAIN pre : seq[i] = pre[i]

FleetIds == {devices[i].id : i \in DOMAIN devices}

\* The device set holds no MIG device.
NoPartition == \A i \in DOMAIN devices : ~devices[i].isMig

\* No element of available carries an annotation.
NoAnnotation == \A i \in DOMAIN available : available[i][2] = ""

ResultOutcome == Outcome(result.policy, result.ids, result.err)

\* C6: getPreferredAllocation runs the topology-aware policy iff the device
\* set holds no MIG device and no available id is annotated, the fallback
\* policy otherwise; what it returns is an outcome of that one policy on
\* the same request, errors included.
C6_PolicySelection ==
    result.call = "getPreferredAllocation" =>
        /\ result.policy =
              (IF NoPartition /\ NoAnnotation THEN "aligned" ELSE "fallback")
        /\ result.policy = "aligned" =>
              ResultOutcome \in alignedAlloc(devices, available, required, size)
        /\ result.policy = "fallback" =>
              ResultOutcome = alloc(devices, available, required, size)

\* Witness C6: the topology-aware policy was selected and its failure is
\* what getPreferredAllocation returned.
C6_Witness ==
    /\ result.call = "getPreferredAllocation"
    /\ NoPartition /\ NoAnnotation
    /\ result.policy = "aligned"
    /\ result.err
    /\ ~alloc(devices, available, required, size).err

\* What the fallback policy promises about a successful result.
AllocResultGood ==
    /\ ~result.err
    /\ Len(result.ids) = size
    /\ Range(required) \subseteq Range(result.ids)
    /\ IsPrefix(required, result.ids)
    /\ NoDuplicates(result.ids)

\* C7 (as claimed): for every available, every required whose ids all
\* occur in available and every size <= len(available), alloc succeeds with
\* exactly size ids, all of required, required as a prefix, no duplicates.
C7_Original ==
    (/\ result.call = "alloc"
     /\ Range(required) \subseteq Range(available)
     /\ size <= Len(available)) => AllocResultGood

\* C7 (amended): the same, for available and required lists without
\* duplicate ids, available holding only ids of the resource manager's
\* device set, and len(required) <= size <= len(available).
C7_FallbackResult ==
    (/\ result.call = "alloc"
     /\ NoDuplicates(available)
     /\ NoDuplicates(required)
     /\ Range(available) \subseteq FleetIds
     /\ Range(required) \subseteq Range(available)
     /\ Len(required) <= size
     /\ size <= Len(available)) => AllocResultGood

\* Witness C7: a request within the amended precondition, with a required
\* id that is not the first of available and a remainder that is cut.
C7_Witness ==
    /\ result.call = "alloc"
    /\ NoDuplicates(available)
    /\ Range(available) \subseteq FleetIds
    /\ Len(available) = 2
    /\ required = <<available[2]>>
    /\ size = 1
    /\ result.ids = required

\* required ++ (available - required): the remainder holds the ids of
\* available that belong to the device set and are not required, once
\* each, in the order of available.
CandidateList ==
    required \o InOrder(available,
                        (Range(available) \cap FleetIds) \ Range(required))

\* alloc fails exactly when the candidate list is shorter than size, and
\* otherwise returns its first size entries.
AllocByCandidateList ==
    /\ result.err <=> Len(CandidateList) < size
    /\ result.err => result.ids = <<>>
    /\ ~result.err => result.ids = SubSeq(CandidateList, 1, size)

\* C8 (as claimed): alloc returns the error and no ids whenever size is
\* larger than the number of distinct ids of available and required
\* together, and fails exactly when the candidate list is shorter than size.
C8_Original ==
    result.call = "alloc" =>
        /\ size > Cardinality(Range(available) \cup Range(required)) =>
              (result.err /\ result.ids = <<>>)
        /\ AllocByCandidateList

\* C8 (amended): alloc fails exactly when the candidate list is shorter
\* than size and otherwise returns its first size entries; so it returns
\* the error and no ids whenever size > len(required) + the number of
\* distinct ids of available outside required, which covers
\* size > |available U required| when required has no duplicate ids.
C8_InsufficientDevices ==
    result.call = "alloc" =>
        /\ AllocByCandidateList
        /\ size > Len(required) + Cardinality(Range(available) \ Range(required)) =>
              (result.err /\ result.ids = <<>>)
        /\ (/\ NoDuplicates(required)
            /\ size > Cardinality(Range(available) \cup Range(required))) =>
              (result.err /\ result.ids = <<>>)

\* Witness C8: a request for more devices than available and required
\* hold together, refused.
C8_Witness ==
    /\ result.call = "alloc"
    /\ NoDuplicates(required)
    /\ Range(available) \subseteq FleetIds
    /\ Cardinality(Range(available) \cup Range(required)) = 2
    /\ size = 3
    /\ result.err
    /\ result.ids = <<>>

\* C9 (as claimed): a successful return of getPreferredAllocation carries
\* exactly size ids under either policy.
C9_ExactSize ==
    (result.call = "getPreferredAllocation" /\ ~result.err) =>
        Len(result.ids) = size

C12_Original ==
    pc = "done" => termReceived

\* C12 (amended): start() returns only (a) after the draining of the
\* termination path, (b) with an error when nvml.Shutdown fails while the
\* previous run is stopped at a restart, or (c) with an error when
\* startPlugins returns one (loadConfig, NVML init in fail-fast mode, the
\* steps up to GetPlugins); a Start failure of an endpoint never ends it.
C12_ReturnPaths ==
    /\ [][(pc # "done" /\ pc' = "done") =>
             \/ pc = "nvmlShutdown" /\ caller = "exit" /\ termReceived
             \/ pc = "nvmlShutdown" /\ caller = "restart" /\ ret' = "err"
             \/ pc \in {"loadConfig", "getPlugins"} /\ ret' = "err"
             \/ pc = "nvmlInit" /\ failOnInitError /\ ret' = "err"]_vars
    /\ [][pc = "startLoop" => pc' \in {"startLoop", "wait"}]_vars
    /\ []((pc = "done" /\ ~termReceived) => ret = "err")

\* Witness C12: start() returned an error, with no termination signal,
\* because nvml.Shutdown failed in the stopPlugins of a restart.
C12_Witness ==
    /\ pc = "done"
    /\ ~termReceived
    /\ ret = "err"
    /\ restarting
    /\ caller = "restart"
    /\ nvmlUp

\* C13: every step on from nvml.Init is either its success, with the
\* session up, or its failure: in fail-fast mode start() returns an error,
\* in lenient mode the supervisor blocks; either way no endpoint is
\* started and no handle was built in that cycle.  Once blocked, the
\* supervisor never takes another step: no event is received, nothing is
\* drained, start() does not return.
C13_InitFailure ==
    /\ [][pc = "nvmlInit" =>
             \/ pc' = "getPlugins" /\ nvmlUp'
             \/ /\ failOnInitError
                /\ pc' = "done" /\ ret' = "err"
                /\ started' = {} /\ newPlugins' = <<>> /\ cycle' = cycle
             \/ /\ ~failOnInitError
                /\ pc' = "blocked" /\ ret' = "none"
                /\ started' = {} /\ newPlugins' = <<>> /\ cycle' = cycle]_vars
    /\ [][pc = "blocked" => UNCHANGED supVars]_vars
    /\ [](pc = "blocked" =>
             (~failOnInitError /\ started = {} /\ ret = "none" /\ ~termReceived))

\* Witness C13: in lenient mode NVML failed to initialise in a restart
\* cycle, after endpoints of the previous cycle had been started and
\* stopped: the supervisor is blocked.
C13_Witness ==
    /\ pc = "blocked"
    /\ ~failOnInitError
    /\ restarting
    /\ \E i \in DOMAIN plugins : plugins[i].starts = 1 /\ plugins[i].stops = 1

\* C20 (as claimed): once a cycle has completed with every Start
\* succeeding, the timer never begins a new cycle: from the wait loop of
\* such a cycle a restart is caused only by a socket creation or SIGHUP.
C20_TimerOnlyAfterFailure ==
    [][(pc = "wait" /\ ~restartPlugins /\ pc' = "restart") =>
          lastEvent'.kind # "timer"]_vars

\* C14: nvmlWaitForEvent.  When the wait, the id lookup and the partition
\* check all succeed, the event carries the reporting device's id, the event
\* type and the payload; for a partition handle the GPU-instance and
\* compute-instance ids are the raw values of the event, for any other
\* handle both are 0xFFFFFFFF whatever the raw event held (so never id 0).
\* When any of the three fails, the empty event and an error are returned.
C14_WaitForEvent ==
    (call.fn = "nvmlWaitForEvent" /\ reply # NoReply) =>
        LET ok == /\ call.waitRet = SUCCESS
                  /\ call.uuidRet = SUCCESS
                  /\ call.migRet = SUCCESS
            e == reply.event
        IN  /\ ok =>
                 /\ reply.err = "nil"
                 /\ e.UUID = Ptr(call.uuid)
                 /\ e.Etype = call.EventType
                 /\ e.Edata = call.EventData
                 /\ call.isMig =>
                       /\ e.GpuInstanceID = Ptr(call.GpuInstanceId)
                       /\ e.ComputeInstanceID = Ptr(call.ComputeInstanceId)
                 /\ ~call.isMig =>
                       /\ e.GpuInstanceID = Ptr(Uint32(MaxHalf, MaxHalf))
                       /\ e.ComputeInstanceID = Ptr(Uint32(MaxHalf, MaxHalf))
                       /\ e.GpuInstanceID # Ptr(Uint32(0, 0))
                       /\ e.ComputeInstanceID # Ptr(Uint32(0, 0))
            /\ ~ok =>
                 /\ reply.err # "nil"
                 /\ e = EmptyEvent

\* A non-partition handle reported an event whose raw ids were 0 and 1.
C14_Witness ==
    /\ call.fn = "nvmlWaitForEvent"
    /\ reply # NoReply
    /\ reply.err = "nil"
    /\ ~call.isMig
    /\ call.GpuInstanceId = Uint32(0, 0)
    /\ call.ComputeInstanceId = Uint32(0, 1)
    /\ reply.event.GpuInstanceID = Ptr(AbsentMarker)

\* Device i (from 0) of the query in progress answers both queries and
\* carries the requested id.
RegMatches(i) ==
    /\ call.devs[i + 1].handleRet = SUCCESS
    /\ call.devs[i + 1].uuidRet = SUCCESS
    /\ call.devs[i + 1].uuid = call.uuid

\* Device i (from 0) fails the handle query or the id query.
RegFails(i) ==
    \/ call.devs[i + 1].handleRet # SUCCESS
    \/ call.devs[i + 1].handleRet = SUCCESS /\ call.devs[i + 1].uuidRet # SUCCESS

\* C15: nvmlRegisterEventForDevice.  Devices are scanned in index order up
\* to the first one that matches the requested id or fails a query.  The
\* registration is attempted on at most one device, the first match, and the
\* call succeeds iff that registration succeeds.  The device-not-found error
\* is returned iff every enumerated device was scanned without a match; an
\* enumeration or id-query error before a match gives an error and no
\* registration.
C15_RegisterFirstMatch ==
    (call.fn = "nvmlRegisterEventForDevice" /\ reply # NoReply) =>
        LET n == Len(call.devs)
            Stops == {i \in 0..(n - 1) : RegMatches(i) \/ RegFails(i)}
            First == CHOOSE i \in Stops : \A j \in Stops : i <= j
            last == IF Stops = {} THEN n - 1 ELSE First
        IN  IF call.countRet # SUCCESS
            THEN /\ reply.err = call.countRet
                 /\ reply.visited = <<>>
                 /\ reply.registered = <<>>
            ELSE /\ reply.visited = [k \in 1..(last + 1) |-> k - 1]
                 /\ Len(reply.registered) <= 1
                 /\ (Stops # {} /\ RegMatches(First)) =>
                        /\ reply.registered = <<First>>
                        /\ reply.err = "nil" <=>
                               call.devs[First + 1].regRet = SUCCESS
                        /\ reply.err # DeviceNotFound
                 /\ (Stops # {} /\ RegFails(First)) =>
                        /\ reply.registered = <<>>
                        /\ reply.err \notin {"nil", DeviceNotFound}
                 /\ reply.err = DeviceNotFound <=> Stops = {}
                 /\ Stops = {} => reply.registered = <<>>

\* The first device has another id, the second one matches, and its
\* registration fails.
C15_Witness ==
    /\ call.fn = "nvmlRegisterEventForDevice"
    /\ reply # NoReply
    /\ Len(call.devs) = 2
    /\ RegMatches(1)
    /\ ~RegMatches(0) /\ ~RegFails(0)
    /\ call.devs[2].regRet # SUCCESS
    /\ reply.registered = <<1>>
    /\ reply.err = ERROR_UNKNOWN

\* Slot i (from 0) of the walk in progress ends the walk: its return code is
\* neither success nor one of the two tolerated codes, or the callback fails
\* on it.
WalkAborts(i) ==
    \/ call.slots[i + 1].ret \notin
           {SUCCESS, ERROR_NOT_FOUND, ERROR_INVALID_ARGUMENT}
    \/ call.slots[i + 1].ret = SUCCESS /\ call.slots[i + 1].cbErr

\* C19: nvmlDevice.walkMigDevices.  Slots are visited in increasing order
\* from 0; a slot answering not-found or invalid-argument is skipped and
\* the walk goes on; the callback is invoked exactly once on every visited
\* slot answering success; the first slot with another return code or a
\* failing callback ends the walk with an error, and no later slot is
\* visited or reported.  Without such a slot all slots are visited and the
\* walk returns no error.
C19_WalkSlots ==
    (call.fn = "walkMigDevices" /\ reply # NoReply) =>
        LET n == Len(call.slots)
            Aborts == {i \in 0..(n - 1) : WalkAborts(i)}
            First == CHOOSE i \in Aborts : \A j \in Aborts : i <= j
            last == IF Aborts = {} THEN n - 1 ELSE First
            upTo == [k \in 1..(last + 1) |-> k - 1]
            Found(i) == call.slots[i + 1].ret = SUCCESS
        IN  IF call.countRet # SUCCESS
            THEN /\ reply.err # "nil"
                 /\ reply.visited = <<>>
                 /\ reply.called = <<>>
            ELSE /\ reply.visited = upTo
                 /\ reply.called = SelectSeq(upTo, Found)
                 /\ reply.err = "nil" <=> Aborts = {}
                 /\ \A i \in 0..(n - 1) :
                        call.slots[i + 1].ret \in
                            {ERROR_NOT_FOUND, ERROR_INVALID_ARGUMENT} =>
                        \A k \in 1..Len(reply.called) : reply.called[k] # i

\* Slot 0 answers not-found and is skipped; slot 1 holds a partition and the
\* callback is invoked on it.
C19_Witness ==
    /\ call.fn = "walkMigDevices"
    /\ reply # NoReply
    /\ Len(call.slots) = 2
    /\ call.slots[1].ret = ERROR_NOT_FOUND
    /\ call.slots[2].ret = SUCCESS
    /\ reply.visited = <<0, 1>>
    /\ reply.called = <<1>>

\* C16: getMigProfile.  For a partition whose attributes are read, the
\* profile is "{g}g.{memGB}gb" when g = c and "{c}c.{g}g.{memGB}gb"
\* otherwise, memGB being the least integer with memGB * 1024 >= memMB
\* ((1, 1, 10240) gives "1g.10gb", (2, 1, 20480) gives "1c.2g.20gb",
\* 10241 MB gives 11 GB); for a handle that is not a partition an error and
\* no profile are returned.
C16_ProfileName ==
    (call.fn = "getMigProfile" /\ reply # NoReply) =>
        LET g == call.GpuInstanceSliceCount
            c == call.ComputeInstanceSliceCount
            mem == call.MemorySizeMB
            partition == /\ call.symbolFound
                         /\ call.migRet = SUCCESS
                         /\ call.isMig
            notPartition == \/ ~call.symbolFound
                            \/ call.migRet = SUCCESS /\ ~call.isMig
            memGB == CHOOSE k \in 0..mem : k * 1024 >= mem /\ (k - 1) * 1024 < mem
        IN  /\ (partition /\ call.attrRet = SUCCESS) =>
                 /\ reply.err = "nil"
                 /\ g = c =>
                       reply.p = ToString(g) \o "g." \o ToString(memGB) \o "gb"
                 /\ g # c =>
                       reply.p = ToString(c) \o "c." \o ToString(g) \o "g."
                                    \o ToString(memGB) \o "gb"
                 /\ (g = 1 /\ c = 1 /\ mem = 10240) => reply.p = "1g.10gb"
                 /\ (g = 2 /\ c = 1 /\ mem = 20480) => reply.p = "1c.2g.20gb"
                 /\ (g = 1 /\ c = 1 /\ mem = 10241) => reply.p = "1g.11gb"
            /\ notPartition =>
                 /\ reply.err # "nil"
                 /\ reply.p = ""

\* A partition with one compute slice in a two-slice GPU instance and
\* 20480 MB was named.
C16_Witness ==
    /\ call.fn = "getMigProfile"
    /\ reply # NoReply
    /\ call.GpuInstanceSliceCount = 2
    /\ call.ComputeInstanceSliceCount = 1
    /\ call.MemorySizeMB = 20480
    /\ reply.err = "nil"
    /\ reply.p = "1c.2g.20gb"

\* The numa_node file of the query in progress was consulted: every NVML
\* query before the read succeeded.
NumaFileConsulted ==
    /\ call.fn = "getNumaNode"
    /\ reply # NoReply
    /\ ~call.symbolFound \/ call.migRet = SUCCESS
    /\ (call.symbolFound /\ call.isMig) => call.parentRet = SUCCESS
    /\ call.pciRet = SUCCESS

\* Decimal text of a natural number.
RECURSIVE DecimalText(_)
DecimalText(n) ==
    LET digit == <<"0", "1", "2", "3", "4", "5", "6", "7", "8", "9">>
    IN  IF n < 10 THEN <<digit[n + 1]>>
        ELSE DecimalText(n \div 10) \o <<digit[(n % 10) + 1]>>

\* Text of an integer as the kernel writes it: decimal digits and a newline.
NodeText(v) ==
    (IF v < 0 THEN <<"-">> \o DecimalText(0 - v) ELSE DecimalText(v))
        \o <<"\n">>

\* C17 (as claimed): getNumaNode.  A missing file yields absent and no
\* error; a present file holding a negative value yields absent; a present
\* file holding a non-negative value n yields n; a present file that cannot
\* be read (permission or I/O error) or whose content is no number yields an
\* error, never absent.
C17_NumaOutcomes ==
    NumaFileConsulted =>
        LET f == call.file
            Values == (0 - 2)..200
            isNumber == \E v \in Values : f.data = NodeText(v)
        IN  /\ f.errno = "ENOENT" =>
                 reply.node = NilPtr /\ reply.err = "nil"
            /\ f.errno \in {"EACCES", "EIO"} => reply.err # "nil"
            /\ f.errno = "nil" =>
                 /\ \A v \in Values :
                       f.data = NodeText(v) =>
                          /\ reply.err = "nil"
                          /\ reply.node = (IF v < 0 THEN NilPtr ELSE Ptr(v))
                 /\ ~isNumber => reply.err # "nil"

\* The bus id getNumaNode works from: the parent's for a partition.
NumaBusId ==
    IF call.symbolFound /\ call.isMig THEN call.parentBusId ELSE call.BusId

\* C18 (as claimed): the bus id "0000:3B:00.0" is looked up under
\* "3b:00.0", and a partition is looked up under its parent's bus id.
C18_Original ==
    NumaFileConsulted =>
        (NumaBusId = <<"0", "0", "0", "0", ":", "3", "B", ":", "0", "0", ".", "0">>
            => reply.key = <<"3", "b", ":", "0", "0", ".", "0">>)

\* C18 (amended): the key is the bus id, the parent's for a partition,
\* without its first four characters when these are "0000", in lower case:
\* "0000:3B:00.0" is looked up under ":3b:00.0" (the colon stays),
\* "00000000:3B:00.0" under "0000:3b:00.0", and "0001:AF:00.0", which has no
\* such prefix, under "0001:af:00.0".
C18_BusIdKey ==
    NumaFileConsulted =>
        LET bus == NumaBusId
            zeros == \A i \in 1..4 : bus[i] = "0"
            off == IF zeros THEN 4 ELSE 0
            upper == {"A", "B", "C", "D", "E", "F"}
        IN  /\ Len(reply.key) = Len(bus) - off
            /\ \A i \in 1..Len(reply.key) :
                  /\ reply.key[i] \notin upper
                  /\ bus[i + off] \notin upper => reply.key[i] = bus[i + off]
                  /\ bus[i + off] = "B" => reply.key[i] = "b"
                  /\ bus[i + off] = "A" => reply.key[i] = "a"
                  /\ bus[i + off] = "F" => reply.key[i] = "f"
            /\ bus = <<"0", "0", "0", "0", ":", "3", "B", ":", "0", "0", ".", "0">>
                  => reply.key = <<":", "3", "b", ":", "0", "0", ".", "0">>
            /\ bus = <<"0", "0", "0", "0", "0", "0", "0", "0", ":", "3", "B",
                       ":", "0", "0", ".", "0">>
                  => reply.key = <<"0", "0", "0", "0", ":", "3", "b", ":", "0",
                                   "0", ".", "0">>

\* A partition whose own bus id differs from its parent's "0000:3B:00.0" was
\* looked up under ":3b:00.0".
C18_Witness ==
    /\ NumaFileConsulted
    /\ call.symbolFound /\ call.isMig
    /\ call.parentBusId = ShortBusId
    /\ call.BusId = OtherBusId
    /\ reply.key = <<":", "3", "b", ":", "0", "0", ".", "0">>

\* GPU i (from 0) of the walk in progress is partition-capable.
ProfileCapable(i) ==
    /\ call.gpus[i + 1].handleRet = SUCCESS
    /\ call.gpus[i + 1].symbolFound
    /\ call.gpus[i + 1].migModeRet = SUCCESS

\* The profile strings offered by the partition-capable GPUs of the walk in
\* progress: "1g.5gb" for 4864 MB and for 5120 MB, "2g.10gb", "3g.20gb".
OfferedProfiles ==
    {name \in {"1g.5gb", "2g.10gb", "3g.20gb"} :
        \E i \in 0..(Len(call.gpus) - 1) :
            /\ ProfileCapable(i)
            /\ \E j \in DOMAIN call.gpus[i + 1].slots :
                  LET s == call.gpus[i + 1].slots[j]
                  IN  /\ s.ret = SUCCESS
                      /\ \/ s.SliceCount = 1 /\ name = "1g.5gb"
                         \/ s.SliceCount = 2 /\ name = "2g.10gb"
                         \/ s.SliceCount = 3 /\ name = "3g.20gb"}

\* C21: walkMigProfiles.  Over the whole walk, across all GPUs and profile
\* slots, no profile string is handed to the callback twice; the strings
\* recorded as visited are exactly those the callback succeeded on; GPUs
\* that are not partition-capable contribute no callback; a failing
\* callback is the last one made and its error ends the walk; a walk that
\* ends without error has delivered every offered profile string.
C21_ProfilesOnce ==
    (call.fn = "walkMigProfiles" /\ reply # NoReply) =>
        LET del == reply.delivered
            n == Len(del)
        IN  /\ \A k, l \in 1..n : k # l => del[k] # del[l]
            /\ reply.visited = {del[k] : k \in 1..n} \ call.failOn
            /\ \A k \in 1..n : del[k] \in OfferedProfiles
            /\ \A k \in 1..n :
                  del[k] \in call.failOn =>
                      k = n /\ reply.err = CallbackError
            /\ reply.err = "nil" => {del[k] : k \in 1..n} = OfferedProfiles

\* Two capable GPUs offered "1g.5gb" three times in all, under two memory
\* sizes, and "2g.10gb" once, after a GPU without partition support; each
\* string was delivered once.
C21_Witness ==
    /\ call.fn = "walkMigProfiles"
    /\ reply # NoReply
    /\ Len(call.gpus) = 2
    /\ ProfileCapable(0) /\ ProfileCapable(1)
    /\ call.gpus[1].slots[1].MemorySizeMB = 4864
    /\ call.gpus[1].slots[2].MemorySizeMB = 5120
    /\ call.gpus[2].slots[1].MemorySizeMB = 4864
    /\ call.gpus[2].slots[2].MemorySizeMB = 10240
    /\ reply.err = "nil"
    /\ reply.delivered = <<"1g.5gb", "2g.10gb">>

\* C22: nvml.Init and nvml.Shutdown alternate, starting with Init: Init is
\* called only when no call or a Shutdown came last and the session is
\* down, Shutdown only when Init came last and the session is up, and the
\* start loop, where every Start call is made, runs with the session up.
C22_InitShutdownAlternate ==
    /\ [][(pc = "nvmlInit" /\ pc' # "nvmlInit") =>
             (lastNvmlCall \in {"none", "Shutdown"} /\ ~nvmlUp)]_vars
    /\ [][(pc = "nvmlShutdown" /\ pc' # "nvmlShutdown") =>
             (lastNvmlCall = "Init" /\ nvmlUp)]_vars
    /\ [](pc = "startLoop" => (lastNvmlCall = "Init" /\ nvmlUp))
    /\ [][SumStarts(newPlugins') > SumStarts(newPlugins) =>
             (pc = "startLoop" /\ nvmlUp)]_vars

\* Witness C22: the second cycle, after Init, Shutdown and Init, has started
\* an endpoint.
C22_Witness ==
    /\ cycle = 2
    /\ pc = "startLoop"
    /\ lastNvmlCall = "Init"
    /\ nvmlUp
    /\ idx = 2
    /\ newPlugins[1].starts = 1
    /\ started # {}

\* C23: when start() has returned, with nil or with an error, no endpoint is
\* up, and every handle of the list held at that moment has had Stop called
\* on it once, also a handle that serves no device and a handle that was
\* never reached by the start loop.
C23_NoneStartedAtReturn ==
    /\ [](ret # "none" <=> pc = "done")
    /\ [](pc = "done" => started = {})
    /\ [](pc = "done" => \A i \in DOMAIN plugins : plugins[i].stops = 1)

\* Witness C23: start() returned an error after stopping a list of two whose
\* first handle had been started and whose second serves no device.
C23_Witness ==
    /\ pc = "done"
    /\ ret = "err"
    /\ ~restartPlugins
    /\ Len(plugins) = 2
    /\ plugins[1].starts = 1
    /\ plugins[2].devs = 0
    /\ plugins[2].starts = 0
    /\ plugins[2].stops = 1

====
